---- MODULE Spec2Model ----
(***************************************************************************)
(* A model of FWQPBO.py: the DICOM tag accessor, the frame classifier and  *)
(* sorter, the DICOM and MATLAB ingestion, the model and algorithm         *)
(* parameter derivation and the pipeline FW around the external solver.    *)
(*                                                                         *)
(* Python values are modelled as follows.  None is the empty tuple and a   *)
(* present value v of an optional is <<v>> (Some(v)).  A DICOM dataset is  *)
(* a record [attrs, hasSeq, frames]: attrs is a function whose DOMAIN is   *)
(* the set of attribute names present at dataset level, hasSeq says        *)
(* whether the 'Frame sequence' element is present and frames is its       *)
(* value; each item of frames is [priv, attrs] where priv says whether the *)
(* private group 0x2005140f is in the item and attrs are the attributes of *)
(* that group's first element.  Python indices are 0-based, so item i of a *)
(* Python list l is l[i+1] here.                                           *)
(***************************************************************************)
EXTENDS Integers, Sequences, FiniteSets, TLC

VARIABLES
    ds,        \* tag accessor: the dataset the accessor works on
    tagCall,   \* tag accessor: the last call (operation, arguments, dataset before it)
    tagRet,    \* tag accessor: what the last call returned
    files,     \* the files handed to the function under study, in input order
    frameList, \* the frame records read from the files (sorted once sorted)
    pc,        \* where the function or pipeline under study stands
    result,    \* what the function under study returned or raised
    dPar,      \* the data parameters: a dict, DOMAIN dPar being the keys it holds
    warned,    \* whether the echo spacing warning has been printed
    aPar,      \* the algorithm parameters (a dict)
    mPar,      \* the model parameters (a dict)
    solverCalls, \* the invocations of the external solver so far, in order
    written,   \* the files written so far: path |-> content
    iter,      \* the index z the slice loop of FW has reached
    im         \* save: the uint16 pixel array of the slice being written

tagVars == <<ds, tagCall, tagRet>>
frameVars == <<files, frameList, pc, result>>
dataVars == <<dPar, warned>>
fwVars == <<aPar, mPar, solverCalls, written, iter, im>>
vars == <<ds, tagCall, tagRet, files, frameList, pc, result, dPar, warned,
          aPar, mPar, solverCalls, written, iter, im>>

None == <<>>
Some(v) == <<v>>

\* F of the value of e, e being evaluated once: a Python local bound to e
With(e, F(_)) == CHOOSE r \in {F(v) : v \in {e}} : TRUE

(***************************************************************************)
(* Bounds of the tag accessor's inputs.                                    *)
(***************************************************************************)
MaxTagFrames == 2
MaxTagVal == 1

TagKeys == {"Echo Time", "Slice Location"}
TagVals == 0..MaxTagVal
TagVRs == {None, Some("DS")}

\* every function from a subset of keys to vals: the attributes a dataset can hold
AttrMaps(keys, vals) == UNION {[d -> vals] : d \in SUBSET keys}

EmptyAttrs == [k \in {} |-> 0]

\* dict/Dataset item assignment and add_new: bind key to val, leaving the rest
AttrPut(attrs, key, val) == [k \in DOMAIN attrs \cup {key} |-> IF k = key THEN val ELSE attrs[k]]

\* 0x2005140f in ds[tagDict['Frame sequence']].value[frame]
HasFrameObject(d, frame) == frame # None /\ d.frames[frame[1] + 1].priv

\* ds[tagDict['Frame sequence']].value[frame][0x2005140f][0]
FrameObject(d, frame) == d.frames[frame[1] + 1].attrs

getTagValue_dsFirst(d, key, frame) ==
    IF key \in DOMAIN d.attrs THEN Some(d.attrs[key])
    ELSE IF HasFrameObject(d, frame) /\ key \in DOMAIN FrameObject(d, frame)
    THEN Some(FrameObject(d, frame)[key])
    ELSE None

getTagValue(d, key, frame) ==
    IF HasFrameObject(d, frame) /\ key \in DOMAIN FrameObject(d, frame)
    THEN Some(FrameObject(d, frame)[key])
    ELSE IF key \in DOMAIN d.attrs THEN Some(d.attrs[key])
    ELSE None

\* the dataset with the attributes of frame's private group replaced
WithFrameAttrs(d, frame, attrs) ==
    [d EXCEPT !.frames[frame[1] + 1].attrs = attrs]

setTagValue_addAtDs(d, key, val, frame, VR) ==
    IF HasFrameObject(d, frame) /\ key \in DOMAIN FrameObject(d, frame)
    THEN [ds |-> WithFrameAttrs(d, frame, AttrPut(FrameObject(d, frame), key, val)), ret |-> TRUE]
    ELSE IF key \in DOMAIN d.attrs
    THEN [ds |-> [d EXCEPT !.attrs = AttrPut(d.attrs, key, val)], ret |-> TRUE]
    ELSE IF VR # None
    THEN [ds |-> [d EXCEPT !.attrs = AttrPut(d.attrs, key, val)], ret |-> TRUE]
    ELSE [ds |-> d, ret |-> FALSE]

\* setTagValue: the dataset after the call and the value returned
setTagValue(d, key, val, frame, VR) ==
    IF HasFrameObject(d, frame) /\ key \in DOMAIN FrameObject(d, frame)
    THEN [ds |-> WithFrameAttrs(d, frame, AttrPut(FrameObject(d, frame), key, val)), ret |-> TRUE]
    ELSE IF key \in DOMAIN d.attrs
    THEN [ds |-> [d EXCEPT !.attrs = AttrPut(d.attrs, key, val)], ret |-> TRUE]
    ELSE IF VR # None
    THEN IF HasFrameObject(d, frame)
         THEN [ds |-> WithFrameAttrs(d, frame, AttrPut(FrameObject(d, frame), key, val)), ret |-> TRUE]
         ELSE [ds |-> [d EXCEPT !.attrs = AttrPut(d.attrs, key, val)], ret |-> TRUE]
    ELSE [ds |-> d, ret |-> FALSE]

(***************************************************************************)
(* The tag accessor on its own: any dataset, any sequence of get and set.  *)
(***************************************************************************)
TagFrameItems ==
    {[priv |-> FALSE, attrs |-> EmptyAttrs]}
        \cup {[priv |-> TRUE, attrs |-> a] : a \in AttrMaps(TagKeys, TagVals)}

TagDatasets ==
    {[attrs |-> a, hasSeq |-> Len(f) > 0, frames |-> f] :
        a \in AttrMaps(TagKeys, TagVals),
        f \in UNION {[1..n -> TagFrameItems] : n \in 0..MaxTagFrames}}

\* the frame arguments a caller may pass for dataset d
FrameArgs(d) == {None} \cup {Some(i) : i \in 0..(Len(d.frames) - 1)}

NoCall == [op |-> "none", key |-> "", val |-> 0, frame |-> None, VR |-> None, before |-> None]

\* the variables of the tag accessor when it is not under study
IdleTag == ds = None /\ tagCall = NoCall /\ tagRet = None

\* the variables of the frame functions when they are not under study
IdleFrames == files = <<>> /\ frameList = <<>> /\ pc = "idle" /\ result = None

\* the data parameters when no job is under study
IdleData == dPar = None /\ warned = FALSE

\* the rest of the pipeline when it is not under study
IdleFW ==
    aPar = None /\ mPar = None /\ solverCalls = <<>> /\ written = None /\ iter = 0 /\ im = <<>>

InitTag ==
    /\ ds \in TagDatasets
    /\ tagCall = NoCall
    /\ tagRet = None
    /\ IdleFrames
    /\ IdleData
    /\ IdleFW

GetTag ==
    \E key \in TagKeys, frame \in FrameArgs(ds) :
        /\ tagCall' = [op |-> "get", key |-> key, val |-> 0, frame |-> frame,
                       VR |-> None, before |-> Some(ds)]
        /\ tagRet' = Some(getTagValue(ds, key, frame))
        /\ ds' = ds
        /\ UNCHANGED <<frameVars, dataVars, fwVars>>

SetTag ==
    \E key \in TagKeys, val \in TagVals, frame \in FrameArgs(ds), VR \in TagVRs :
        /\ tagCall' = [op |-> "set", key |-> key, val |-> val, frame |-> frame,
                       VR |-> VR, before |-> Some(ds)]
        /\ tagRet' = Some(setTagValue(ds, key, val, frame, VR).ret)
        /\ ds' = setTagValue(ds, key, val, frame, VR).ds
        /\ UNCHANGED <<frameVars, dataVars, fwVars>>

NextTag == GetTag \/ SetTag

SpecTag == InitTag /\ [][NextTag]_vars

(***************************************************************************)
(* Claims about the tag accessor.                                          *)
(***************************************************************************)
\* where an entry lives: 0 is the dataset level, i+1 the private group of frame i
TagEntries(d) ==
    {<<0, k, d.attrs[k]>> : k \in DOMAIN d.attrs}
        \cup UNION {{<<i, k, d.frames[i].attrs[k]>> : k \in DOMAIN d.frames[i].attrs} :
                        i \in 1..Len(d.frames)}

\* the shape of a dataset: everything but the attribute entries
TagShape(d) == <<d.hasSeq, [i \in 1..Len(d.frames) |-> d.frames[i].priv]>>

InFrameGroup(d, key, frame) ==
    /\ frame # None
    /\ d.frames[frame[1] + 1].priv
    /\ key \in DOMAIN d.frames[frame[1] + 1].attrs

\* C7: getTagValue returns the per-frame value when a frame index is given and
\* that frame's private group exists and holds the attribute, even when a
\* dataset-level value exists too; otherwise the dataset-level value when
\* present; otherwise None.  With frame=None only the dataset level is read.
C7_GetTagValue ==
    tagCall.op = "get" =>
        LET d == tagCall.before[1]
            key == tagCall.key
            frame == tagCall.frame
            ret == tagRet[1]
        IN  /\ InFrameGroup(d, key, frame)
                => ret = Some(d.frames[frame[1] + 1].attrs[key])
            /\ (~InFrameGroup(d, key, frame) /\ key \in DOMAIN d.attrs)
                => ret = Some(d.attrs[key])
            /\ (~InFrameGroup(d, key, frame) /\ key \notin DOMAIN d.attrs)
                => ret = None
            /\ frame = None
                => ret = (IF key \in DOMAIN d.attrs THEN Some(d.attrs[key]) ELSE None)

\* a get with a frame index finds the attribute in the frame's group and, with
\* another value, at dataset level, and returns the per-frame one
C7_Witness ==
    /\ tagCall.op = "get"
    /\ InFrameGroup(tagCall.before[1], tagCall.key, tagCall.frame)
    /\ tagCall.key \in DOMAIN tagCall.before[1].attrs
    /\ tagCall.before[1].attrs[tagCall.key] # FrameObject(tagCall.before[1], tagCall.frame)[tagCall.key]
    /\ tagRet = Some(Some(FrameObject(tagCall.before[1], tagCall.frame)[tagCall.key]))

\* C8: setTagValue on an attribute absent from the frame's group and from the
\* dataset level returns False and changes nothing when no VR is given, and
\* with a VR creates exactly one entry holding val (in the frame's group when
\* that group exists, else at dataset level) and returns True; on an existing
\* attribute it overwrites exactly one entry (the per-frame one if present,
\* else the dataset-level one) and returns True.
C8_SetTagValue ==
    tagCall.op = "set" =>
        LET d == tagCall.before[1]
            key == tagCall.key
            val == tagCall.val
            frame == tagCall.frame
            ret == tagRet[1]
            absent == ~InFrameGroup(d, key, frame) /\ key \notin DOMAIN d.attrs
            group == frame # None /\ d.frames[frame[1] + 1].priv
            loc == IF InFrameGroup(d, key, frame) \/ (absent /\ group)
                   THEN frame[1] + 1 ELSE 0
            old == {e \in TagEntries(d) : e[1] = loc /\ e[2] = key}
        IN  /\ TagShape(ds) = TagShape(d)
            /\ (absent /\ tagCall.VR = None) => (ret = FALSE /\ ds = d)
            /\ (absent /\ tagCall.VR # None) =>
                    /\ ret = TRUE
                    /\ old = {}
                    /\ TagEntries(ds) = TagEntries(d) \cup {<<loc, key, val>>}
            /\ ~absent =>
                    /\ ret = TRUE
                    /\ Cardinality(old) = 1
                    /\ TagEntries(ds) = (TagEntries(d) \ old) \cup {<<loc, key, val>>}

\* a set with a VR creates the attribute in the private group of the frame,
\* the attribute being absent there and at dataset level
C8_Witness ==
    /\ tagCall.op = "set"
    /\ tagCall.VR # None
    /\ tagCall.frame # None
    /\ tagCall.before[1].frames[tagCall.frame[1] + 1].priv
    /\ ~InFrameGroup(tagCall.before[1], tagCall.key, tagCall.frame)
    /\ tagCall.key \notin DOMAIN tagCall.before[1].attrs
    /\ tagRet = Some(TRUE)
    /\ tagCall.key \in DOMAIN ds.frames[tagCall.frame[1] + 1].attrs
    /\ tagCall.key \notin DOMAIN ds.attrs

(***************************************************************************)
(* Frames: reading the attributes of DICOM files, classifying and sorting. *)
(* A file is [name, kind, ds]: kind "dicom" is a file dicom.read_file      *)
(* reads, with dataset ds.  The value of 'Image Type' is the set of its    *)
(* tokens, 'Pixel Spacing' is <<row, column>> and 'Image Position          *)
(* (Patient)' is <<x, y, z>>; the other values are integers.  The files    *)
(* studied here carry one of the four type tokens and every required       *)
(* attribute, as getValidFiles leaves them.                                *)
(***************************************************************************)
reqAttributes ==
    <<"Image Type", "Echo Time", "Slice Location", "Imaging Frequency",
      "Columns", "Rows", "Pixel Spacing", "Slice Thickness">>

isMultiFrame(d) ==
    /\ "Number of frames" \in DOMAIN d.attrs
    /\ d.attrs["Number of frames"] > 1
    /\ d.hasSeq

\* the first of M, P, R, I among the tokens of the tag value
typeTag2type(tagValue) ==
    IF "M" \in tagValue THEN Some("M")
    ELSE IF "P" \in tagValue THEN Some("P")
    ELSE IF "R" \in tagValue THEN Some("R")
    ELSE IF "I" \in tagValue THEN Some("I")
    ELSE None

getAttribute(d, attr, frame) ==
    LET attribute == getTagValue(d, attr, frame)
    IN  IF attr = "Slice Location" /\ attribute = None
        THEN LET position == getTagValue(d, "Image Position (Patient)", frame)
             IN  IF position # None /\ position[1] # <<>>
                 THEN Some(position[1][3]) ELSE position
        ELSE IF attr = "Image Type" /\ attribute # None /\ attribute[1] # {}
        THEN typeTag2type(attribute[1])
        ELSE attribute

\* [file]+[frame]+[getAttribute(ds,attr,frame) for attr in reqAttributes]:
\* tags[0..9] are the fields file, frame, type, echo, slice, freq, cols, rows,
\* ps, thick
FrameRecord(file, frame) ==
    [file  |-> file.name,
     frame |-> frame,
     type  |-> getAttribute(file.ds, reqAttributes[1], frame)[1],
     echo  |-> getAttribute(file.ds, reqAttributes[2], frame)[1],
     slice |-> getAttribute(file.ds, reqAttributes[3], frame)[1],
     freq  |-> getAttribute(file.ds, reqAttributes[4], frame)[1],
     cols  |-> getAttribute(file.ds, reqAttributes[5], frame)[1],
     rows  |-> getAttribute(file.ds, reqAttributes[6], frame)[1],
     ps    |-> getAttribute(file.ds, reqAttributes[7], frame)[1],
     thick |-> getAttribute(file.ds, reqAttributes[8], frame)[1]]

\* the frame records one file contributes
FileFrames(file) ==
    IF isMultiFrame(file.ds)
    THEN [i \in 1..Len(file.ds.frames) |-> FrameRecord(file, Some(i - 1))]
    ELSE <<FrameRecord(file, None)>>

\* the loop over the files that fills frameList
RECURSIVE ReadFrames(_)
ReadFrames(fs) ==
    IF fs = <<>> THEN <<>>
    ELSE ReadFrames(SubSeq(fs, 1, Len(fs) - 1)) \o FileFrames(fs[Len(fs)])

\* typeTags.count(t)
Count(frames, t) == Cardinality({i \in 1..Len(frames) : frames[i].type = t})

getType_looseMRI(frames) ==
    LET numR == Count(frames, "R")
        numI == Count(frames, "I")
        numM == Count(frames, "M")
        numP == Count(frames, "P")
    IN  IF numM + numP = 0 /\ numR + numI > 0 /\ numR = numI THEN "RI"
        ELSE IF numM + numP > 0 /\ numR + numI = 0 /\ numM = numP THEN "MP"
        ELSE IF numM + numR + numI > 0 /\ numM = numR /\ numR = numI THEN "MRI"
        ELSE "Exception"

\* getType: the label returned, or "Exception" for the exception raised
getType(frames) ==
    LET numR == Count(frames, "R")
        numI == Count(frames, "I")
        numM == Count(frames, "M")
        numP == Count(frames, "P")
    IN  IF numM + numP = 0 /\ numR + numI > 0 /\ numR = numI THEN "RI"
        ELSE IF numM + numP > 0 /\ numR + numI = 0 /\ numM = numP THEN "MP"
        ELSE IF numP = 0 /\ numM + numR + numI > 0 /\ numM = numR /\ numR = numI THEN "MRI"
        ELSE "Exception"

\* ord(): Python orders the one-letter type strings by code point
Ord(t) == CASE t = "I" -> 73 [] t = "M" -> 77 [] t = "P" -> 80 [] t = "R" -> 82

\* the sort keys: tags[2], tags[3], tags[4]
KeyOf(tags, k) ==
    CASE k = "type" -> Ord(tags.type)
      [] k = "echo" -> tags.echo
      [] k = "slice" -> tags.slice

\* x put into the sorted list s behind the elements whose key is not greater
Insert(s, x, k) ==
    LET p == Cardinality({i \in 1..Len(s) : KeyOf(s[i], k) <= KeyOf(x, k)})
    IN  SubSeq(s, 1, p) \o <<x>> \o SubSeq(s, p + 1, Len(s))

\* x put into the sorted list s before the elements whose key is not smaller
InsertBefore(s, x, k) ==
    LET p == Cardinality({i \in 1..Len(s) : KeyOf(s[i], k) < KeyOf(x, k)})
    IN  SubSeq(s, 1, p) \o <<x>> \o SubSeq(s, p + 1, Len(s))

\* the first n elements of l, sorted
RECURSIVE SortPrefix(_, _, _, _)
SortPrefix(l, n, k, stable) ==
    IF n = 0 THEN <<>>
    ELSE With(SortPrefix(l, n - 1, k, stable),
              LAMBDA s : IF stable THEN Insert(s, l[n], k) ELSE InsertBefore(s, l[n], k))

sort_unstable(l, k) == With(l, LAMBDA v : SortPrefix(v, Len(v), k, FALSE))

\* list.sort(key=...): a stable sort, so every element goes behind the
\* elements before it whose key is not greater
sort(l, k) == With(l, LAMBDA v : SortPrefix(v, Len(v), k, TRUE))

\* the three successive sorts of updateDataParamsDICOM
SortFrames(frames) == sort(sort(sort(frames, "type"), "echo"), "slice")

\* a single-frame DICOM file with the given varying attributes
SingleFrameFile(name, type, echo, slice, freq) ==
    [name |-> name, kind |-> "dicom",
     ds |-> [attrs |-> [k \in {reqAttributes[i] : i \in 1..Len(reqAttributes)} |->
                            CASE k = "Image Type" -> {"ORIGINAL", "PRIMARY", type}
                              [] k = "Echo Time" -> echo
                              [] k = "Slice Location" -> slice
                              [] k = "Imaging Frequency" -> freq
                              [] k = "Columns" -> 2
                              [] k = "Rows" -> 1
                              [] k = "Pixel Spacing" -> <<1, 1>>
                              [] k = "Slice Thickness" -> 5],
             hasSeq |-> FALSE, frames |-> <<>>]]

ImageTypes == {"M", "P", "R", "I"}

(***************************************************************************)
(* getType on its own: any list of frames of the four types.               *)
(***************************************************************************)
MaxTypeFrames == 6

TypeFileLists ==
    UNION {[1..n -> {SingleFrameFile(0, t, 1, 0, 64) : t \in ImageTypes}] : n \in 0..MaxTypeFrames}

InitType ==
    /\ files \in TypeFileLists
    /\ frameList = <<>>
    /\ pc = "read"
    /\ result = None
    /\ IdleTag
    /\ IdleFW
    /\ IdleData

\* read the frames of the files, as the callers of getType do
ReadTypeFrames ==
    /\ pc = "read"
    /\ frameList' = ReadFrames(files)
    /\ pc' = "classify"
    /\ UNCHANGED <<files, result>>
    /\ UNCHANGED <<tagVars, dataVars, fwVars>>

Classify ==
    /\ pc = "classify"
    /\ result' = Some(getType(frameList))
    /\ pc' = "done"
    /\ UNCHANGED <<files, frameList>>
    /\ UNCHANGED <<tagVars, dataVars, fwVars>>

NextType == ReadTypeFrames \/ Classify

SpecType == InitType /\ [][NextType]_vars

\* C1: getType returns 'RI' exactly when M+P=0, R+I>0 and R=I, 'MP' exactly
\* when R+I=0, M+P>0 and M=P, 'MRI' exactly when P=0, M+R+I>0 and M=R=I; no
\* counts satisfy two of the patterns, and every other list of frames (the
\* empty one and one frame of each type among them) raises.
C1_GetTypeTotalExclusive ==
    pc = "done" =>
        LET R == Count(frameList, "R")
            I == Count(frameList, "I")
            M == Count(frameList, "M")
            P == Count(frameList, "P")
            isRI == M + P = 0 /\ R + I > 0 /\ R = I
            isMP == R + I = 0 /\ M + P > 0 /\ M = P
            isMRI == P = 0 /\ M + R + I > 0 /\ M = R /\ R = I
        IN  /\ result \in {Some("RI"), Some("MP"), Some("MRI"), Some("Exception")}
            /\ result = Some("RI") <=> isRI
            /\ result = Some("MP") <=> isMP
            /\ result = Some("MRI") <=> isMRI
            /\ ~(isRI /\ isMP) /\ ~(isRI /\ isMRI) /\ ~(isMP /\ isMRI)
            /\ ~(isRI \/ isMP \/ isMRI) <=> result = Some("Exception")
            /\ frameList = <<>> => result = Some("Exception")
            /\ (M = 1 /\ P = 1 /\ R = 1 /\ I = 1) => result = Some("Exception")

\* getType has raised on one frame of each of the four types
C1_Witness ==
    /\ pc = "done"
    /\ Len(frameList) = 4
    /\ \A t \in ImageTypes : Count(frameList, t) = 1
    /\ result = Some("Exception")

(***************************************************************************)
(* The three sorts on their own: any list of single-frame files, named by  *)
(* their place in the list, with any type, echo time and slice location.   *)
(***************************************************************************)
MaxSortFrames == 3
MaxSortEcho == 2
MaxSortSlice == 1

SortKeys == [type : {"M", "P"}, echo : 1..MaxSortEcho, slice : 0..MaxSortSlice]

SortFileLists ==
    UNION {{[i \in 1..n |-> SingleFrameFile(i, k[i].type, k[i].echo, k[i].slice, 64)] :
                k \in [1..n -> SortKeys]} : n \in 0..MaxSortFrames}

InitSort ==
    /\ files \in SortFileLists
    /\ frameList = <<>>
    /\ pc = "read"
    /\ result = None
    /\ IdleTag
    /\ IdleFW
    /\ IdleData

\* lines 288-300 of updateDataParamsDICOM: read the frames and sort them
ReadAndSort ==
    /\ pc = "read"
    /\ frameList' = SortFrames(ReadFrames(files))
    /\ pc' = "sorted"
    /\ UNCHANGED <<files, result>>
    /\ UNCHANGED <<tagVars, dataVars, fwVars>>

NextSort == ReadAndSort

SpecSort == InitSort /\ [][NextSort]_vars

\* every order in which the same files can be given
FileOrders(fs) ==
    {[i \in 1..Len(fs) |-> fs[p[i]]] :
        p \in {q \in [1..Len(fs) -> 1..Len(fs)] : \A i, j \in 1..Len(fs) : q[i] = q[j] => i = j}}

SortKey(tags) == <<tags.slice, tags.echo, Ord(tags.type)>>
KeySeq(frames) == [i \in 1..Len(frames) |-> SortKey(frames[i])]

LexLeq(a, b) ==
    \/ a[1] < b[1]
    \/ a[1] = b[1] /\ a[2] < b[2]
    \/ a[1] = b[1] /\ a[2] = b[2] /\ a[3] <= b[3]

NonDecreasing(frames) ==
    \A i \in 1..(Len(frames) - 1) : LexLeq(SortKey(frames[i]), SortKey(frames[i + 1]))

DistinctKeys(frames) ==
    \A i, j \in 1..Len(frames) : SortKey(frames[i]) = SortKey(frames[j]) => i = j

\* C2 as stated: for every permutation of the input file order the three
\* sorts give the same final sequence of frame records, and that sequence is
\* non-decreasing lexicographically by (slice location, echo time, type).
C2_SameRecordsAnyOrder ==
    pc = "sorted" =>
        /\ \A fs \in FileOrders(files) : SortFrames(ReadFrames(fs)) = frameList
        /\ NonDecreasing(frameList)

\* C2 as amended: for every permutation of the input file order the three
\* sorts give the same sequence of (slice location, echo time, type) keys,
\* non-decreasing lexicographically; the sequence of frame records is the
\* same whenever no two frames share all three keys.
C2_SameKeysAnyOrder ==
    pc = "sorted" =>
        /\ \A fs \in FileOrders(files) :
                /\ KeySeq(SortFrames(ReadFrames(fs))) = KeySeq(frameList)
                /\ DistinctKeys(frameList) => SortFrames(ReadFrames(fs)) = frameList
        /\ NonDecreasing(frameList)
        /\ Len(frameList) = Len(files)

\* three files of distinct keys, two of them in one slice and echo, given in
\* an order that is not the sorted one, have been sorted
C2_Witness ==
    /\ pc = "sorted"
    /\ Len(frameList) = 3
    /\ DistinctKeys(frameList)
    /\ frameList # ReadFrames(files)
    /\ frameList[1].slice = frameList[2].slice /\ frameList[1].echo = frameList[2].echo
    /\ frameList[1].file > frameList[2].file

(***************************************************************************)
(* DICOM ingestion.  Python dicts (the AttrDict parameter objects) are     *)
(* functions on the keys they hold.  Echo times are integers: milliseconds *)
(* in the tags, microseconds where the code holds seconds.  A mean or a    *)
(* quotient is the record [num, den] of its numerator and denominator.     *)
(* An exception is the name of what raised it, "none" when nothing raised. *)
(***************************************************************************)
gyroX100 == 4258

\* d with the keys of new set to their values in new
Upd(d, new) == new @@ d

\* range(n)
Range(n) == [i \in 1..n |-> i - 1]

\* sorted(set(...)) of a set of integers
SortedSet(S) ==
    With(S, LAMBDA v : [p \in 1..Cardinality(v) |->
                            CHOOSE x \in v : Cardinality({y \in v : y < x}) = p - 1])

\* np.diff
Diff(l) == [i \in 1..(Len(l) - 1) |-> l[i + 1] - l[i]]

RECURSIVE Sum(_)
Sum(l) == IF l = <<>> THEN 0 ELSE l[1] + Sum(Tail(l))

SeqMax(l) == CHOOSE x \in {l[i] : i \in 1..Len(l)} : \A i \in 1..Len(l) : l[i] <= x
SeqMin(l) == CHOOSE x \in {l[i] : i \in 1..Len(l)} : \A i \in 1..Len(l) : x <= l[i]

\* np.max(np.diff(echoTimes))/dt>1.05 or np.min(np.diff(echoTimes))/dt<.95,
\* with dt = np.mean(np.diff(echoTimes)), for increasing echo times
SpacingVaries(echoTimes) ==
    LET d == Diff(echoTimes)
    IN  \/ SeqMax(d) * Len(d) * 100 > 105 * Sum(d)
        \/ SeqMin(d) * Len(d) * 100 < 95 * Sum(d)

\* the raise in the reading loop of isValidDataset and updateDataParamsDICOM
RaisesMultiFrame(fs) ==
    \E i \in 1..Len(fs) : isMultiFrame(fs[i].ds) /\ Len(fs) > 1

FieldSet(frames, f(_)) == {f(frames[i]) : i \in 1..Len(frames)}

\* the checks of isValidDataset on the frames read
ValidFrames(frames) ==
    LET echo(t) == t.echo
        freq(t) == t.freq
        cols(t) == t.cols
        rows(t) == t.rows
        ps0(t) == t.ps[1]
        ps1(t) == t.ps[2]
        thick(t) == t.thick
    IN  /\ getType(frames) # "Exception"
        /\ ~(Cardinality(FieldSet(frames, echo)) < 3)
        /\ ~(Cardinality(FieldSet(frames, freq)) > 1)
        /\ ~(Cardinality(FieldSet(frames, cols)) > 1)
        /\ ~(Cardinality(FieldSet(frames, rows)) > 1)
        /\ ~(Cardinality(FieldSet(frames, ps0)) > 1)
        /\ ~(Cardinality(FieldSet(frames, ps1)) > 1)
        /\ ~(Cardinality(FieldSet(frames, thick)) > 1)

\* isValidDataset: [exc, value]
isValidDataset(fs) ==
    IF RaisesMultiFrame(fs) THEN [exc |-> "multi-frame", value |-> FALSE]
    ELSE [exc |-> "none", value |-> With(ReadFrames(fs), ValidFrames)]

\* i=(dPar.N*slice+n)*len(type)
FrameOffset(N, slice, n, type) == (N * slice + n) * Len(type)

\* the offset of the second frame read: phaseFrame or realFrame
SecondOffset(i, type) == IF type = "MRI" THEN i + 2 ELSE i + 1

\* the (echo, slice) pairs in the order of the two loops
LoopPairs(echoes, sliceList) ==
    [q \in 1..(Len(echoes) * Len(sliceList)) |->
        [n |-> echoes[((q - 1) \div Len(sliceList)) + 1],
         slice |-> sliceList[((q - 1) % Len(sliceList)) + 1]]]

\* lines 318-371 of updateDataParamsDICOM, d holding the parameters so far
\* and echoTimes the times of the selected echoes
ReadImages(d, frames, type, echoTimes) ==
    LET w == SpacingVaries(echoTimes)
        nSlices == Cardinality({frames[i].slice : i \in 1..Len(frames)})
        sliceList == IF "sliceList" \in DOMAIN d THEN d["sliceList"] ELSE Range(nSlices)
        d5 == Upd(d, ("sliceList" :> sliceList) @@ ("nx" :> frames[1].cols)
                        @@ ("ny" :> frames[1].rows) @@ ("nz" :> Len(sliceList)))
        pairs == LoopPairs(d["echoes"], sliceList)
        first(q) == FrameOffset(d["N"], pairs[q].slice, pairs[q].n, type)
        second(q) == SecondOffset(first(q), type)
    IN  IF \E q \in 1..Len(pairs) : second(q) >= Len(frames)
        THEN [exc |-> "IndexError", dPar |-> d5, warned |-> w]
        ELSE [exc |-> "none",
              dPar |-> Upd(d5, ("frameList" :> frames)
                            @@ ("img" :> [q \in 1..Len(pairs) |->
                                            [n |-> pairs[q].n, slice |-> pairs[q].slice,
                                             first |-> frames[first(q) + 1],
                                             second |-> frames[second(q) + 1],
                                             reScale |-> d["reScale"]]])),
              warned |-> w]

\* lines 311-317 of updateDataParamsDICOM, allTimes being the echo times of
\* the dataset in increasing order
SelectEchoes(d, frames, type, allTimes) ==
    IF \E k \in 1..Len(d["echoes"]) : d["echoes"][k] >= Len(allTimes)
    THEN [exc |-> "IndexError", dPar |-> d, warned |-> FALSE]
    ELSE With([k \in 1..Len(d["echoes"]) |-> allTimes[d["echoes"][k] + 1]],
              LAMBDA echoTimes :
                IF Len(echoTimes) < 2
                THEN [exc |-> "ValueError",
                      dPar |-> Upd(d, ("N" :> Len(echoTimes)) @@ ("t1" :> echoTimes[1])
                                        @@ ("dt" :> [num |-> 0, den |-> 0])),
                      warned |-> FALSE]
                ELSE ReadImages(Upd(d, ("N" :> Len(echoTimes)) @@ ("t1" :> echoTimes[1])
                                        @@ ("dt" :> [num |-> Sum(Diff(echoTimes)),
                                                     den |-> Len(Diff(echoTimes))])),
                                frames, type, echoTimes))

\* lines 302-310 of updateDataParamsDICOM, frames being the sorted frameList
ReadGeometry(dP, frames) ==
    IF getType(frames) = "Exception" THEN [exc |-> "type", dPar |-> dP, warned |-> FALSE]
    ELSE With(SortedSet({frames[i].echo * 1000 : i \in 1..Len(frames)}),
              LAMBDA allTimes :
                SelectEchoes(
                    Upd(dP, ("dx" :> frames[1].ps[2]) @@ ("dy" :> frames[1].ps[1])
                            @@ ("dz" :> frames[1].thick)
                            @@ ("B0" :> [num |-> frames[1].freq * 100, den |-> gyroX100])
                            @@ ("totalN" :> Len(allTimes))
                            @@ ("echoes" :> IF "echoes" \in DOMAIN dP THEN dP["echoes"]
                                            ELSE Range(Len(allTimes)))),
                    frames, getType(frames), allTimes))

\* updateDataParamsDICOM: [exc, dPar, warned].  One entry of img is what the
\* loop appends for one echo and slice: the two frames whose pixels are
\* combined (first the magnitude or imaginary one, second the phase or real
\* one) and the factor reScale.
updateDataParamsDICOM(dP, fs) ==
    IF RaisesMultiFrame(fs) THEN [exc |-> "multi-frame", dPar |-> dP, warned |-> FALSE]
    ELSE With(SortFrames(ReadFrames(fs)), LAMBDA frames : ReadGeometry(dP, frames))

(***************************************************************************)
(* The file sets studied: an acquisition of nSlices slices at 5 mm steps   *)
(* from origin (0 where the ingestion is studied on its own) and nEchoes   *)
(* echoes at 10 ms steps from 10 ms (the last one 10 ms late when jitter), *)
(* with one frame of every type of the combination at each slice and echo, *)
(* stored as one file per frame, as one multi-frame file, as a multi-frame *)
(* file and a single-frame file, or as two multi-frame files, and listed   *)
(* in acquisition order or in reverse.                                     *)
(***************************************************************************)
MaxSlices == 2
MaxEchoes == 3

Combos == {"MP", "RI", "MRI", "M"}
Packs == {"single", "multi", "mixed", "twomulti"}

ComboTypes(combo) ==
    CASE combo = "MP" -> <<"M", "P">>
      [] combo = "RI" -> <<"I", "R">>
      [] combo = "MRI" -> <<"I", "M", "R">>
      [] combo = "M" -> <<"M">>

Scenarios ==
    [combo : Combos, nSlices : 1..MaxSlices, nEchoes : 2..MaxEchoes, jitter : BOOLEAN,
     pack : Packs, reversed : BOOLEAN, mixedFreq : BOOLEAN, origin : {0, 5}]

NumFrames(sc) == sc.nSlices * sc.nEchoes * Len(ComboTypes(sc.combo))

EchoTimeOf(sc, e) == 10 * (e + 1) + (IF sc.jitter /\ e = sc.nEchoes - 1 THEN 10 ELSE 0)
SliceLocationOf(sc, k) == sc.origin + 5 * k

\* the q-th frame acquired: slice-major, then echo, then type
AcquiredFrame(sc, q) ==
    LET nT == Len(ComboTypes(sc.combo))
    IN  [type |-> ComboTypes(sc.combo)[((q - 1) % nT) + 1],
         echo |-> EchoTimeOf(sc, ((q - 1) \div nT) % sc.nEchoes),
         slice |-> SliceLocationOf(sc, (q - 1) \div (nT * sc.nEchoes)),
         freq |-> IF sc.mixedFreq /\ q = NumFrames(sc) THEN 128 ELSE 64]

\* a multi-frame DICOM file holding frames q1..q2 of the acquisition
MultiFrameFile(name, sc, q1, q2) ==
    [name |-> name, kind |-> "dicom",
     ds |-> [attrs |-> [k \in {"Number of frames", "Columns", "Rows", "Pixel Spacing",
                               "Slice Thickness"} |->
                            CASE k = "Number of frames" -> q2 - q1 + 1
                              [] k = "Columns" -> 2
                              [] k = "Rows" -> 1
                              [] k = "Pixel Spacing" -> <<1, 1>>
                              [] k = "Slice Thickness" -> 5],
             hasSeq |-> TRUE,
             frames |-> [j \in 1..(q2 - q1 + 1) |->
                            [priv |-> TRUE,
                             attrs |-> [k \in {"Image Type", "Echo Time", "Slice Location",
                                               "Imaging Frequency"} |->
                                CASE k = "Image Type" ->
                                        {"ORIGINAL", "PRIMARY", AcquiredFrame(sc, q1 + j - 1).type}
                                  [] k = "Echo Time" -> AcquiredFrame(sc, q1 + j - 1).echo
                                  [] k = "Slice Location" -> AcquiredFrame(sc, q1 + j - 1).slice
                                  [] k = "Imaging Frequency" -> AcquiredFrame(sc, q1 + j - 1).freq]]]]]

SingleFileOf(sc, q) ==
    SingleFrameFile(q, AcquiredFrame(sc, q).type, AcquiredFrame(sc, q).echo,
                    AcquiredFrame(sc, q).slice, AcquiredFrame(sc, q).freq)

Reverse(l) == [i \in 1..Len(l) |-> l[Len(l) + 1 - i]]

ScenarioFiles(sc) ==
    LET n == NumFrames(sc)
        inOrder ==
            CASE sc.pack = "single" -> [q \in 1..n |-> SingleFileOf(sc, q)]
              [] sc.pack = "multi" -> <<MultiFrameFile(1, sc, 1, n)>>
              [] sc.pack = "mixed" -> <<MultiFrameFile(1, sc, 1, n - 1), SingleFileOf(sc, n)>>
              [] sc.pack = "twomulti" ->
                    <<MultiFrameFile(1, sc, 1, n \div 2), MultiFrameFile(2, sc, (n \div 2) + 1, n)>>
    IN  IF sc.reversed THEN Reverse(inOrder) ELSE inOrder

\* every multi-frame file holds at least two frames
WellPacked(sc) ==
    /\ sc.pack = "mixed" => NumFrames(sc) >= 3
    /\ sc.pack = "twomulti" => NumFrames(sc) >= 4
    /\ sc.jitter => sc.nEchoes >= 3

FileSets == {ScenarioFiles(sc) : sc \in {x \in Scenarios : WellPacked(x) /\ x.origin = 0}}

\* the non-empty increasing lists of indices below n: an echo or slice subset
Subsets(n) == {SortedSet(S) : S \in (SUBSET (0..(n - 1))) \ {{}}}

NumEchoes(fs) == With(ReadFrames(fs), LAMBDA v : Cardinality({v[i].echo : i \in 1..Len(v)}))
NumSlices(fs) == With(ReadFrames(fs), LAMBDA v : Cardinality({v[i].slice : i \in 1..Len(v)}))

\* the data parameters as updateDataParams hands them on: the rescale factor
\* and, when configured, the echo subset and the slice subset
DataConfigs(fs) ==
    {("reScale" :> 1) @@ e @@ z :
        e \in {EmptyAttrs} \cup {"echoes" :> x : x \in Subsets(NumEchoes(fs))},
        z \in {EmptyAttrs} \cup {"sliceList" :> x : x \in Subsets(NumSlices(fs))}}

InitDicom ==
    /\ files \in FileSets
    /\ dPar \in DataConfigs(files)
    /\ warned = FALSE
    /\ frameList = <<>>
    /\ pc = "start"
    /\ result = None
    /\ IdleTag
    /\ IdleFW

CallIsValidDataset ==
    /\ pc = "start"
    /\ result' = Some(isValidDataset(files))
    /\ pc' = "validated"
    /\ UNCHANGED <<files, frameList, dPar, warned>>
    /\ UNCHANGED <<tagVars, fwVars>>

CallUpdateDataParamsDICOM ==
    /\ pc \in {"start", "validated"}
    /\ LET r == updateDataParamsDICOM(dPar, files)
       IN  /\ dPar' = r.dPar
           /\ warned' = r.warned
           /\ result' = Some([exc |-> r.exc, value |-> r.exc = "none"])
    /\ pc' = "updated"
    /\ UNCHANGED <<files, frameList>>
    /\ UNCHANGED <<tagVars, fwVars>>

NextDicom == CallIsValidDataset \/ CallUpdateDataParamsDICOM

SpecDicom == InitDicom /\ [][NextDicom]_vars

(***************************************************************************)
(* Claims about the DICOM ingestion.                                       *)
(***************************************************************************)
\* the type each of the two frames read must have
ExpectedTypes(type) ==
    CASE type = "MP" -> <<"M", "P">>
      [] type = "RI" -> <<"I", "R">>
      [] type = "MRI" -> <<"I", "R">>

\* the frames img was built from are those of the selected echoes and slices
FramesMatch(d) ==
    LET frames == d["frameList"]
        locs == SortedSet({frames[i].slice : i \in 1..Len(frames)})
        times == SortedSet({frames[i].echo : i \in 1..Len(frames)})
        type == getType(frames)
    IN  /\ Len(d["img"]) = Len(d["echoes"]) * Len(d["sliceList"])
        /\ \A q \in 1..Len(d["img"]) :
            LET c == d["img"][q]
            IN  /\ c.first.slice = locs[c.slice + 1]
                /\ c.second.slice = locs[c.slice + 1]
                /\ c.first.echo = times[c.n + 1]
                /\ c.second.echo = times[c.n + 1]
                /\ <<c.first.type, c.second.type>> = ExpectedTypes(type)

\* C3: for a complete dataset and every configured echo subset and slice
\* subset, the frames updateDataParamsDICOM reads at the offset
\* (N*slice+n)*len(type) carry the slice location of that slice and the echo
\* time of that echo, and have the expected types.
C3_OffsetFramesMatch ==
    (pc = "updated" /\ result[1].exc = "none") => FramesMatch(dPar)

\* how many of the files are multi-frame files
NumMultiFrameFiles(fs) == Cardinality({i \in 1..Len(fs) : isMultiFrame(fs[i].ds)})

\* C6: isValidDataset and updateDataParamsDICOM raise the 'multiple
\* multi-frame files' failure if and only if the file set holds more than
\* one multi-frame file; one multi-frame file, alone or together with
\* single-frame files, is not rejected by this check.
C6_RaisedIffSeveralMultiFrame ==
    pc \in {"validated", "updated"} =>
        (result[1].exc = "multi-frame" <=> NumMultiFrameFiles(files) > 1)

(***************************************************************************)
(* Model parameters.  A configuration value stands for what float(), int() *)
(* and split(',') make of its text.  Chemical shifts are integers in units *)
(* of 0.00001 ppm (4.7 ppm is 470000); CL, P2U and UD are integers in      *)
(* tenths; an entry of alpha is the fraction [num, den], the rounding of   *)
(* np.float32 being left out.                                              *)
(***************************************************************************)
Rat(n, d) == [num |-> n, den |-> d]
Zero == Rat(0, 1)
One == Rat(1, 1)

\* np.zeros([M,P]) with alpha[0,0]=1.
WaterAlpha(M, P) ==
    [m \in 1..M |-> [q \in 1..P |-> IF m = 1 /\ q = 1 THEN One ELSE Zero]]

\* a row of alpha whose fat columns alpha[m,1:] hold the hundredths given
FatRow(hundredths) ==
    [q \in 1..(Len(hundredths) + 1) |-> IF q = 1 THEN Zero ELSE Rat(hundredths[q - 1], 100)]

\* getFACalphas, its arguments None or Some(tenths); "TypeError" when it
\* computes with an argument that is None
getFACalphas(CL, P2U, UD) ==
    LET M == Cardinality({i \in 1..3 : <<CL, UD, P2U>>[i] = None}) + 2
        water == WaterAlpha(1, 11)[1]
        cl == CL[1]
        p2u == P2U[1]
        ud == UD[1]
    IN  IF M = 2
        THEN <<water,
               FatRow(<<900, 60 * (cl - 40) + ud * (2 * p2u - 80), 600, 40 * ud, 600,
                        2 * ud * p2u, 200, 200, 100, ud * (2 * p2u + 20)>>)>>
        ELSE IF M = 3
        THEN IF CL = None \/ P2U = None THEN "TypeError"
             ELSE <<water,
                    FatRow(<<900, 60 * (cl - 40), 600, 0, 600, 0, 200, 200, 100, 0>>),
                    FatRow(<<0, 10 * (2 * p2u - 80), 0, 400, 0, 10 * 2 * p2u, 0, 0, 0,
                             10 * (2 * p2u + 20)>>)>>
        ELSE IF M = 4
        THEN IF CL = None THEN "TypeError"
             ELSE <<water,
                    FatRow(<<900, 60 * (cl - 40), 600, 0, 600, 0, 200, 200, 100, 0>>),
                    FatRow(<<0, -800, 0, 400, 0, 0, 0, 0, 0, 200>>),
                    FatRow(<<0, 200, 0, 0, 0, 200, 0, 0, 0, 200>>)>>
        ELSE <<water,
               FatRow(<<900, 0, 600, 0, 600, 0, 200, 200, 100, 0>>),
               FatRow(<<0, 200, 0, 0, 0, 0, 0, 0, 0, 0>>),
               FatRow(<<0, 0, 0, 400, 0, 0, 0, 0, 0, 200>>),
               FatRow(<<0, 0, 0, 0, 0, 200, 0, 0, 0, 200>>)>>

\* alpha for nFAC=0 from 'relamps': alpha[1,p+1]=float(a)
RelAmpsAlpha(P, relamps) ==
    [m \in 1..2 |-> [q \in 1..P |->
        IF m = 1 THEN (IF q = 1 THEN One ELSE Zero)
        ELSE IF q >= 2 /\ q - 1 <= Len(relamps) THEN relamps[q - 1] ELSE Zero]]

\* alpha for nFAC=0 without 'relamps': for p in range(mPar.P):
\* mPar.alpha[1,p] = float(1/len(fatCS))
UniformAlpha(P, K) ==
    [m \in 1..2 |-> [q \in 1..P |->
        IF m = 1 THEN (IF q = 1 THEN One ELSE Zero)
        ELSE Rat(1, K)]]

\* lines 469-491 of updateModelParams, m holding CS, P, nFAC and M
DeriveAlpha(m, K) ==
    LET m3 == IF m["nFAC"] \in {1, 2}
              THEN Upd(m, "CL" :> IF "cl" \in DOMAIN m THEN m["cl"] ELSE 174)
              ELSE m
        m4 == IF m["nFAC"] = 1
              THEN IF "p2u" \in DOMAIN m3 THEN Upd(m3, "P2U" :> m3["p2u"])
                   ELSE Upd(m3, "p2u" :> 2)
              ELSE m3
    IN  IF m["nFAC"] = 0
        THEN IF "relamps" \in DOMAIN m
             THEN IF Len(m["relamps"]) > m["P"] - 1
                  THEN [exc |-> "IndexError", mPar |-> m4]
                  ELSE [exc |-> "none",
                        mPar |-> Upd(m4, "alpha" :> RelAmpsAlpha(m["P"], m["relamps"]))]
             ELSE [exc |-> "none", mPar |-> Upd(m4, "alpha" :> UniformAlpha(m["P"], K))]
        ELSE IF m["nFAC"] = 1
        THEN IF "P2U" \notin DOMAIN m4 THEN [exc |-> "AttributeError", mPar |-> m4]
             ELSE [exc |-> "none",
                   mPar |-> Upd(m4, "alpha" :> getFACalphas(Some(m4["CL"]), Some(m4["P2U"]), None))]
        ELSE IF m["nFAC"] = 2
        THEN [exc |-> "none", mPar |-> Upd(m4, "alpha" :> getFACalphas(Some(m4["CL"]), None, None))]
        ELSE IF m["nFAC"] = 3
        THEN [exc |-> "none", mPar |-> Upd(m4, "alpha" :> getFACalphas(None, None, None))]
        ELSE [exc |-> "Exception", mPar |-> m4]

\* updateModelParams: [exc, mPar]
updateModelParams(mP) ==
    LET watCS == IF "watcs" \in DOMAIN mP THEN <<mP["watcs"]>> ELSE <<470000>>
        fatCS == IF "fatcs" \in DOMAIN mP THEN mP["fatcs"] ELSE <<130000>>
        nFAC == IF "nfac" \in DOMAIN mP THEN mP["nfac"] ELSE 0
        m1 == Upd(mP, ("CS" :> watCS \o fatCS) @@ ("P" :> Len(watCS \o fatCS))
                        @@ ("nFAC" :> nFAC))
    IN  IF nFAC > 0 /\ m1["P"] # 11 THEN [exc |-> "Exception", mPar |-> m1]
        ELSE DeriveAlpha(Upd(m1, "M" :> 2 + nFAC), Len(fatCS))

(***************************************************************************)
(* updateModelParams on its own: any model configuration.                  *)
(***************************************************************************)
MaxFatCS == 3

\* K chemical shifts of fat
FatShifts(K) == [i \in 1..K |-> 130000 + 80000 * (i - 1)]

\* the configurations with the fat chemical shifts f (none when f is empty)
ModelConfigsWith(f) ==
    {f @@ n @@ c @@ u @@ w @@ r :
        n \in {EmptyAttrs} \cup {"nfac" :> x : x \in 0..3},
        c \in {EmptyAttrs, "cl" :> 180},
        u \in {EmptyAttrs, "p2u" :> 3},
        w \in {EmptyAttrs, "watcs" :> 470000},
        r \in {EmptyAttrs}
             \cup {"relamps" :> [i \in 1..(IF "fatcs" \in DOMAIN f THEN Len(f["fatcs"]) ELSE 1)
                                    |-> Rat(i, 10)]}}

ModelConfigs ==
    UNION {ModelConfigsWith(f) :
            f \in {EmptyAttrs} \cup {"fatcs" :> FatShifts(K) : K \in (1..MaxFatCS) \cup {10}}}

InitModel ==
    /\ mPar \in ModelConfigs
    /\ aPar = None /\ solverCalls = <<>> /\ written = None /\ iter = 0 /\ im = <<>>
    /\ pc = "start"
    /\ result = None
    /\ files = <<>> /\ frameList = <<>>
    /\ IdleTag
    /\ IdleData

CallUpdateModelParams ==
    /\ pc = "start"
    /\ mPar' = updateModelParams(mPar).mPar
    /\ result' = Some([exc |-> updateModelParams(mPar).exc,
                       value |-> updateModelParams(mPar).exc = "none"])
    /\ pc' = "updated"
    /\ UNCHANGED <<files, frameList, aPar, solverCalls, written, iter, im>>
    /\ UNCHANGED <<tagVars, dataVars>>

NextModel == CallUpdateModelParams

SpecModel == InitModel /\ [][NextModel]_vars

RatEq(a, b) == a.num * b.den = b.num * a.den
RatAdd(a, b) == Rat(a.num * b.den + b.num * a.den, a.den * b.den)

RECURSIVE RowSum(_, _)
RowSum(row, n) == IF n = 0 THEN Zero ELSE RatAdd(RowSum(row, n - 1), row[n])

\* C4: after updateModelParams with nFAC=0 and no 'relamps', for K fat
\* chemical shifts (P=K+1), alpha has 2 rows and P columns, row 0 is
\* [1,0,...,0] and row 1 holds 1/K on the K fat resonances only (zero in the
\* water column 0), so that row 1 sums to 1.
C4_UniformAlpha ==
    (pc = "updated" /\ result[1].exc = "none" /\ mPar["nFAC"] = 0
        /\ "relamps" \notin DOMAIN mPar) =>
        LET K == Len(mPar["CS"]) - 1
            P == mPar["P"]
            alpha == mPar["alpha"]
        IN  /\ P = K + 1
            /\ Len(alpha) = 2
            /\ \A m \in 1..2 : Len(alpha[m]) = P
            /\ \A q \in 1..P : RatEq(alpha[1][q], IF q = 1 THEN One ELSE Zero)
            /\ RatEq(alpha[2][1], Zero)
            /\ \A q \in 2..P : RatEq(alpha[2][q], Rat(1, K))
            /\ RatEq(RowSum(alpha[2], P), One)

(***************************************************************************)
(* The pipeline FW.  A file is a DICOM file (kind "dicom", its dataset in  *)
(* ds), a MATLAB file that loadmat reads (kind "mat", the fields of        *)
(* imDataParams in mat), a file named *.mat that loadmat cannot read       *)
(* ("badmat"), or any other file that pydicom cannot read ("other").  The  *)
(* variable files holds the files the 'files' entry names, or the listing  *)
(* getFiles makes of the 'dirs' entry, in that order.                      *)
(***************************************************************************)
\* the truth value Python gives what getAttribute returned for attr (the
\* type found is a non-empty string, a number is true unless zero)
Truthy(attr, a) ==
    /\ a # None
    /\ CASE attr = "Image Type" -> TRUE
         [] attr = "Pixel Spacing" -> a[1] # <<>>
         [] OTHER -> a[1] # 0

AttrInDataset(d, attr, multiframe) ==
    IF getAttribute(d, attr, None) # None THEN TRUE
    ELSE IF multiframe
    THEN \A i \in 1..Len(d.frames) : Truthy(attr, getAttribute(d, attr, Some(i - 1)))
    ELSE FALSE

\* all(hasRequiredAttrs) for a file that dicom.read_file reads
hasRequiredAttrs(file) ==
    /\ file.kind = "dicom"
    /\ \A a \in 1..Len(reqAttributes) :
            AttrInDataset(file.ds, reqAttributes[a], isMultiFrame(file.ds))

getValidFiles(fs) == SelectSeq(fs, hasRequiredAttrs)

\* dPar.files[0][-4:]=='.mat'
EndsWithMat(file) == file.kind \in {"mat", "badmat"}

\* the image array of a MATLAB file after img[:,:,sliceList,:,:] and
\* img[:,:,:,:,echoes], flattened as (echo,slice,row,col): one entry per
\* echo and slice of the file, times reScale
MatImage(echoes, sliceList, reScale) ==
    [q \in 1..(Len(echoes) * Len(sliceList)) |->
        [n |-> LoopPairs(echoes, sliceList)[q].n,
         slice |-> LoopPairs(echoes, sliceList)[q].slice,
         first |-> None, second |-> None, reScale |-> reScale]]

\* updateDataParamsMATLAB: [exc, dPar, warned].  The files studied hold at
\* least three echo times and a field strength above 1 T, which is how the
\* loop over imDataParams tells the echo times, the field strength and the
\* precession flag apart.  Echo times are in microseconds.
updateDataParamsMATLAB(d, file) ==
    IF file.kind # "mat" THEN [exc |-> "Exception", dPar |-> d, warned |-> FALSE]
    ELSE
    LET mat == file.mat
        d1 == Upd(d, "B0" :> mat.B0)
        d2 == Upd(d1, ("ny" :> mat.ny) @@ ("nx" :> mat.nx) @@ ("nz" :> mat.nz)
                        @@ ("N" :> Len(mat.TE)))
        sliceList == IF "sliceList" \in DOMAIN d THEN d["sliceList"] ELSE Range(mat.nz)
        d3 == Upd(d2, ("sliceList" :> sliceList) @@ ("nz" :> Len(sliceList))
                        @@ ("totalN" :> Len(mat.TE)))
        echoes == IF "echoes" \in DOMAIN d THEN d["echoes"] ELSE Range(Len(mat.TE))
        d4 == Upd(d3, ("echoes" :> echoes) @@ ("N" :> Len(echoes)))
        echoTimes == [k \in 1..Len(echoes) |-> mat.TE[echoes[k] + 1]]
        d5 == Upd(d4, ("t1" :> echoTimes[1])
                        @@ ("dt" :> IF Len(echoTimes) < 2 THEN Rat(0, 0)
                                    ELSE Rat(Sum(Diff(echoTimes)), Len(Diff(echoTimes)))))
    IN  IF mat.clockwise # 1 THEN [exc |-> "Exception", dPar |-> d1, warned |-> FALSE]
        ELSE IF mat.nCoils > 1 THEN [exc |-> "Exception", dPar |-> d2, warned |-> FALSE]
        ELSE IF \E z \in 1..Len(sliceList) : sliceList[z] >= mat.nz
        THEN [exc |-> "IndexError", dPar |-> d2, warned |-> FALSE]
        ELSE IF \E k \in 1..Len(echoes) : echoes[k] >= Len(mat.TE)
        THEN [exc |-> "IndexError", dPar |-> d3, warned |-> FALSE]
        ELSE IF Len(echoTimes) < 2 THEN [exc |-> "ValueError", dPar |-> d5, warned |-> FALSE]
        ELSE IF SpacingVaries(echoTimes)
        THEN [exc |-> "echo-spacing", dPar |-> d5, warned |-> FALSE]
        ELSE [exc |-> "none",
              dPar |-> Upd(d5, ("frameList" :> <<>>) @@ ("dx" :> Rat(3, 2))
                                @@ ("dy" :> Rat(3, 2)) @@ ("dz" :> 5)
                                @@ ("img" :> MatImage(echoes, sliceList, d["reScale"]))),
              warned |-> FALSE]

\* lines 534-547 of updateDataParams, d holding the parameters so far
ReadSource(d, fs) ==
    IF "files" \in DOMAIN d
    THEN IF Len(getValidFiles(fs)) = 0
         THEN IF Len(fs) = 1 /\ EndsWithMat(fs[1])
              THEN updateDataParamsMATLAB(d, fs[1])
              ELSE [exc |-> "Exception", dPar |-> d, warned |-> FALSE]
         ELSE [exc |-> "none", dPar |-> d, warned |-> FALSE]
    ELSE IF "dirs" \in DOMAIN d
    THEN With(getValidFiles(fs),
              LAMBDA validFiles :
                IF Len(validFiles) > 0 THEN updateDataParamsDICOM(d, validFiles)
                ELSE [exc |-> "Exception", dPar |-> d, warned |-> FALSE])
    ELSE [exc |-> "Exception", dPar |-> d, warned |-> FALSE]

\* updateDataParams: [exc, dPar, warned].  The entries 'echoes' and
\* 'slicelist' of the configuration are the lists that split(',') and int()
\* make of their text, 'rescale' and 'temp' the numbers float() makes.
updateDataParams(dP, outDir, fs) ==
    IF outDir = None /\ "outdir" \notin DOMAIN dP
    THEN [exc |-> "Exception", dPar |-> dP, warned |-> FALSE]
    ELSE
    LET d1 == Upd(dP, ("outDir" :> IF outDir # None THEN outDir[1] ELSE dP["outdir"])
                        @@ ("reScale" :> IF "rescale" \in DOMAIN dP THEN dP["rescale"] ELSE 1))
        d2 == IF "slicelist" \in DOMAIN dP THEN Upd(d1, "sliceList" :> dP["slicelist"]) ELSE d1
        d3 == IF "temp" \in DOMAIN dP THEN Upd(d2, "Temp" :> dP["temp"]) ELSE d2
    IN  ReadSource(d3, fs)

Min(a, b) == IF a <= b THEN a ELSE b

\* round(n/10) of Python 3: to the nearest integer, a half to the even one
RoundTenth(n) ==
    IF n % 10 < 5 THEN n \div 10
    ELSE IF n % 10 > 5 THEN (n \div 10) + 1
    ELSE IF (n \div 10) % 2 = 0 THEN n \div 10
    ELSE (n \div 10) + 1

\* int(a/b) for integers a and b, b not 0: the quotient rounded towards zero
TruncDiv(a, b) ==
    LET q == (IF a < 0 THEN -a ELSE a) \div (IF b < 0 THEN -b ELSE b)
    IN  IF (a < 0) = (b < 0) THEN q ELSE -q

R2Index_noCap(nR2, R2, R2step) == TruncDiv(R2 * R2step.den, R2step.num)

\* min(aPar.nR2-1,int(R2/aPar.R2step))
R2Index(nR2, R2, R2step) == Min(nR2 - 1, TruncDiv(R2 * R2step.den, R2step.num))

\* updateAlgoParams: [exc, aPar].  R2max and the candidates R2cand are
\* integers (1/s), R2step is the fraction R2max/(nR2-1), and R2/R2step is
\* computed exactly, without the rounding of floating point.
updateAlgoParams(aP) ==
    LET nR2 == IF "nr2" \in DOMAIN aP THEN aP["nr2"] ELSE 1
        R2max == IF "r2max" \in DOMAIN aP THEN aP["r2max"] ELSE 100
        R2cand == IF "r2cand" \in DOMAIN aP THEN aP["r2cand"] ELSE <<0>>
        graphcut == IF "graphcut" \in DOMAIN aP THEN aP["graphcut"] = "True" ELSE FALSE
        nB0 == IF "nb0" \in DOMAIN aP THEN aP["nb0"] ELSE 100
        R2step == IF nR2 > 1 THEN Rat(R2max, nR2 - 1) ELSE One
        iR2cand == {R2Index(nR2, R2cand[i], R2step) : i \in 1..Len(R2cand)}
        a1 == Upd(aP, ("nR2" :> nR2) @@ ("R2max" :> R2max) @@ ("R2cand" :> R2cand)
                @@ ("FibSearch" :> IF "fibsearch" \in DOMAIN aP
                                   THEN aP["fibsearch"] = "True" ELSE FALSE)
                @@ ("mu" :> IF "mu" \in DOMAIN aP THEN aP["mu"] ELSE 1)
                @@ ("nB0" :> nB0)
                @@ ("nICMiter" :> IF "nicmiter" \in DOMAIN aP THEN aP["nicmiter"] ELSE 0)
                @@ ("graphcut" :> graphcut)
                @@ ("graphcutLevel" :> IF graphcut THEN 0 ELSE 100)
                @@ ("multiScale" :> IF "multiscale" \in DOMAIN aP
                                    THEN aP["multiscale"] = "True" ELSE FALSE)
                @@ ("use3D" :> IF "use3d" \in DOMAIN aP THEN aP["use3d"] = "True" ELSE FALSE)
                @@ ("R2step" :> R2step))
    IN  IF R2step.num = 0 THEN [exc |-> "ZeroDivisionError", aPar |-> a1]
        ELSE [exc |-> "none",
              aPar |-> Upd(a1, ("iR2cand" :> iR2cand) @@ ("nR2cand" :> Cardinality(iR2cand))
                                @@ ("maxICMupdate" :> RoundTenth(nB0)))]

\* img.reshape(N,nz,width)[:,z,:].flatten(): for every echo, the run of
\* width entries at position z
SliceImage(img, N, nz, width, z) ==
    [q \in 1..(N * width) |->
        img[(((q - 1) \div width) * nz + z) * width + ((q - 1) % width) + 1]]

getSliceDataParams_sliceMajor(dP, slice, z) ==
    Upd(dP, ("sliceList" :> <<slice>>)
            @@ ("img" :> SubSeq(dP["img"], z * (Len(dP["img"]) \div dP["nz"]) + 1,
                                (z + 1) * (Len(dP["img"]) \div dP["nz"])))
            @@ ("nz" :> 1))

\* getSliceDataParams: the copy made for slice number slice at position z.
\* An entry of img is one pixel, or, in the jobs of the pipeline, all the
\* ny*nx pixels of one echo and slice: reshape(N,nz,ny*nx) cuts the array
\* into N*nz runs of equal length, one per echo and slice position.
getSliceDataParams(dP, slice, z) ==
    Upd(dP, ("sliceList" :> <<slice>>)
            @@ ("img" :> SliceImage(dP["img"], dP["N"], dP["nz"],
                                    Len(dP["img"]) \div (dP["N"] * dP["nz"]), z))
            @@ ("nz" :> 1))

\* save: [exc, writes], writes being the objects save_as writes, in order.
\* An object is written at <<outDir, number>> (outDir/number.dcm); content
\* names the file it was read from (0 when made from scratch), the frames
\* kept, the slices whose pixel data it holds and the series number.
save(outDir, dP, seriesNumber) ==
    LET frames == dP["frameList"]
        sl == dP["sliceList"]
        multiframe == Len(frames) > 0
                        /\ Cardinality({frames[i].file : i \in 1..Len(frames)}) = 1
        index(z) == dP["totalN"] * sl[z] * Len(getType(frames))
        bad == {z \in 1..Len(sl) : Len(frames) > 0 /\ index(z) >= Len(frames)}
        last == IF bad = {} THEN Len(sl)
                ELSE (CHOOSE z \in bad : \A y \in bad : z <= y) - 1
        object(z) ==
            [path |-> <<outDir, sl[z]>>,
             content |-> [source |-> IF Len(frames) > 0 THEN frames[index(z) + 1].file ELSE 0,
                          frames |-> IF Len(frames) > 0 THEN <<frames[index(z) + 1].frame>>
                                     ELSE <<None>>,
                          slices |-> <<sl[z]>>,
                          series |-> seriesNumber]]
    IN  IF multiframe
        THEN IF bad # {} THEN [exc |-> "IndexError", writes |-> <<>>]
             ELSE [exc |-> "none",
                   writes |-> <<[path |-> <<outDir, 0>>,
                                 content |-> [source |-> frames[1].file,
                                              frames |-> [z \in 1..Len(sl) |->
                                                            frames[index(z) + 1].frame],
                                              slices |-> sl,
                                              series |-> seriesNumber]]>>]
        ELSE [exc |-> IF bad = {} THEN "none" ELSE "IndexError",
              writes |-> [z \in 1..last |-> object(z)]]

\* the series processDataset saves, in order, with their series numbers
Series(aP, mP) ==
    SelectSeq(<<[name |-> "wat", number |-> 101], [name |-> "fat", number |-> 102],
                [name |-> "ff", number |-> 105], [name |-> "R2map", number |-> 106],
                [name |-> "B0map", number |-> 107], [name |-> "CL", number |-> 108],
                [name |-> "UD", number |-> 109], [name |-> "PUD", number |-> 110]>>,
              LAMBDA s : CASE s.name = "R2map" -> aP["nR2"] > 1
                           [] s.name = "CL" -> mP["nFAC"] > 2
                           [] s.name = "UD" -> mP["nFAC"] > 0
                           [] s.name = "PUD" -> mP["nFAC"] > 1
                           [] OTHER -> TRUE)

\* the calls of save at the end of processDataset from the k-th series on,
\* acc being what the earlier ones wrote: [exc, writes]
RECURSIVE SaveSeries(_, _, _, _)
SaveSeries(series, k, dP, acc) ==
    IF k > Len(series) THEN [exc |-> "none", writes |-> acc]
    ELSE With(save(<<dP["outDir"], series[k].name>>, dP, series[k].number),
              LAMBDA r :
                IF r.exc # "none" THEN [exc |-> r.exc, writes |-> acc \o r.writes]
                ELSE SaveSeries(series, k + 1, dP, acc \o r.writes))

\* the file system after the objects of writes are written, in order
WriteAll(w, writes) ==
    [p \in DOMAIN w \cup {writes[i].path : i \in 1..Len(writes)} |->
        IF \E i \in 1..Len(writes) : writes[i].path = p
        THEN writes[CHOOSE i \in 1..Len(writes) :
                        /\ writes[i].path = p
                        /\ \A j \in (i + 1)..Len(writes) : writes[j].path # p].content
        ELSE w[p]]

\* one invocation of the external solver: its arguments, buf holding the
\* number of elements of the output buffers Xreal, Ximag, R2map and B0map
FWcpp(dP, aP, mP, nR2, nICMiter, graphcutLevel, buf) ==
    [Y |-> dP["img"], N |-> dP["N"], nx |-> dP["nx"], ny |-> dP["ny"], nz |-> dP["nz"],
     dx |-> dP["dx"], dy |-> dP["dy"], dz |-> dP["dz"], t1 |-> dP["t1"], dt |-> dP["dt"],
     B0 |-> dP["B0"], CS |-> mP["CS"], alpha |-> mP["alpha"], M |-> mP["M"], P |-> mP["P"],
     R2step |-> aP["R2step"], nR2 |-> nR2, iR2cand |-> aP["iR2cand"],
     nR2cand |-> aP["nR2cand"], nICMiter |-> nICMiter, graphcutLevel |-> graphcutLevel,
     Xreal |-> buf.Xreal, Ximag |-> buf.Ximag, R2map |-> buf.R2map, B0map |-> buf.B0map]

\* processDataset: [exc, calls, writes, mPar], calls being the invocations
\* of the solver and mPar the model parameters it leaves.  Temp is in
\* degrees Celsius, UD = 2.6 in tenths.
processDataset(dP, aP, mP) ==
    LET m0 == IF "Temp" \in DOMAIN dP
              THEN Upd(mP, "CS" :> [mP["CS"] EXCEPT ![1] = 504800 - 1085 * dP["Temp"]])
              ELSE mP
        nVxl == dP["nx"] * dP["ny"] * dP["nz"]
        buf == [Xreal |-> nVxl * m0["M"], Ximag |-> nVxl * m0["M"],
                R2map |-> nVxl * (IF aP["nR2"] > 1 THEN 1 ELSE 0), B0map |-> nVxl]
        mUD == Upd(m0, "UD" :> 26)
        firstAlpha == getFACalphas(Some(mUD["CL"]), Some(mUD["P2U"]), Some(mUD["UD"]))
        mFirst == Upd(mUD, ("alpha" :> firstAlpha) @@ ("M" :> Len(firstAlpha)))
        mSecond == Upd(mFirst, ("alpha" :> m0["alpha"]) @@ ("M" :> m0["M"]))
    IN  IF m0["nFAC"] > 0
        THEN IF ~({"CL", "P2U"} \subseteq DOMAIN m0)
             THEN [exc |-> "AttributeError", calls |-> <<>>, writes |-> <<>>, mPar |-> mUD]
             ELSE With(SaveSeries(Series(aP, m0), 1, dP, <<>>),
                       LAMBDA saved :
                         [exc |-> saved.exc,
                          calls |-> <<FWcpp(dP, aP, mFirst, aP["nR2"], aP["nICMiter"],
                                            aP["graphcutLevel"], buf),
                                      FWcpp(dP, aP, mSecond, -aP["nR2"], 0, 100, buf)>>,
                          writes |-> saved.writes,
                          mPar |-> mSecond])
        ELSE With(SaveSeries(Series(aP, m0), 1, dP, <<>>),
                  LAMBDA saved :
                    [exc |-> saved.exc,
                     calls |-> <<FWcpp(dP, aP, m0, aP["nR2"], aP["nICMiter"],
                                       aP["graphcutLevel"], buf)>>,
                     writes |-> saved.writes,
                     mPar |-> m0])

(***************************************************************************)
(* The jobs studied.  DICOM sources are the acquisitions above (a          *)
(* multi-frame file also with its first slice at 5 mm), one of them with a *)
(* file pydicom cannot read beside it; MATLAB sources hold 2 x 1 voxels    *)
(* per slice, three echoes and one or two coils.                           *)
(***************************************************************************)
FWScenarios ==
    {sc \in Scenarios :
        /\ WellPacked(sc) /\ ~sc.reversed
        /\ sc.combo \in {"MP", "MRI", "M"}
        /\ sc.pack \in {"single", "multi", "mixed"}
        /\ sc.origin # 0 => sc.pack = "multi"
        /\ sc.mixedFreq => (sc.pack = "single" /\ ~sc.jitter /\ sc.nSlices = 1
                                /\ sc.nEchoes = MaxEchoes /\ sc.combo = "MP")}

OtherFile(name) == [name |-> name, kind |-> "other"]

MatFile(name, nz, jitter, nCoils, clockwise) ==
    [name |-> name, kind |-> "mat",
     mat |-> [TE |-> [e \in 1..3 |-> 10000 * e + (IF jitter /\ e = 3 THEN 10000 ELSE 0)],
              B0 |-> Rat(3, 2), nx |-> 2, ny |-> 1, nz |-> nz, nCoils |-> nCoils,
              clockwise |-> clockwise]]

FWFileSets ==
    {ScenarioFiles(sc) : sc \in FWScenarios}
    \cup {ScenarioFiles(sc) \o <<OtherFile(0)>> :
            sc \in {x \in FWScenarios : x.pack = "single" /\ x.combo = "MP" /\ x.nSlices = 1
                                        /\ ~x.jitter /\ ~x.mixedFreq}}
    \cup {<<MatFile(1, nz, jitter, nCoils, clockwise)>> :
            nz \in 1..MaxSlices, jitter \in BOOLEAN, nCoils \in 1..2, clockwise \in {0, 1}}
    \cup {<<[name |-> 1, kind |-> "badmat"]>>, <<OtherFile(1)>>}

\* the data configurations for the files fs
FWDataConfigs(fs) ==
    {("outdir" :> "out") @@ src @@ e @@ z @@ t :
        src \in {"files" :> [i \in 1..Len(fs) |-> fs[i].name], "dirs" :> <<"dir">>},
        e \in {EmptyAttrs, "echoes" :> <<0, 1>>},
        z \in {EmptyAttrs} \cup {"slicelist" :> <<k>> : k \in 0..(MaxSlices - 1)},
        t \in IF EndsWithMat(fs[1]) THEN {EmptyAttrs, "temp" :> 37} ELSE {EmptyAttrs}}
    \cup {"dirs" :> <<"dir">>, "outdir" :> "out"}

AlgoConfigs ==
    {n @@ u : n \in {EmptyAttrs, "nr2" :> 3}, u \in {EmptyAttrs, "use3d" :> "True"}}

FWModelConfigs ==
    {EmptyAttrs, "nfac" :> 1}
    \cup {("fatcs" :> FatShifts(10)) @@ ("nfac" :> n) @@ c @@ u :
            n \in 1..3, c \in {EmptyAttrs, "cl" :> 180}, u \in {EmptyAttrs, "p2u" :> 3}}

InitFW ==
    /\ files \in FWFileSets
    /\ dPar \in FWDataConfigs(files)
    /\ aPar \in AlgoConfigs
    /\ mPar \in FWModelConfigs
    /\ warned = FALSE
    /\ solverCalls = <<>>
    /\ written = EmptyAttrs
    /\ iter = 0
    /\ im = <<>>
    /\ frameList = <<>>
    /\ pc = "start"
    /\ result = None
    /\ IdleTag

\* updateDataParams(dataParams,outDir), FW being called as main calls it
FWUpdateDataParams ==
    /\ pc = "start"
    /\ \E r \in {updateDataParams(dPar, None, files)} :
        /\ dPar' = r.dPar
        /\ warned' = r.warned
        /\ result' = Some([step |-> "updateDataParams", exc |-> r.exc])
        /\ pc' = IF r.exc = "none" THEN "data" ELSE "failed"
    /\ UNCHANGED <<files, frameList, tagVars, fwVars>>

\* updateAlgoParams(algoParams)
FWUpdateAlgoParams ==
    /\ pc = "data"
    /\ \E r \in {updateAlgoParams(aPar)} :
        /\ aPar' = r.aPar
        /\ result' = Some([step |-> "updateAlgoParams", exc |-> r.exc])
        /\ pc' = IF r.exc = "none" THEN "algo" ELSE "failed"
    /\ UNCHANGED <<files, frameList, tagVars, dataVars, mPar, solverCalls, written, iter, im>>

\* updateModelParams(modelParams)
FWUpdateModelParams ==
    /\ pc = "algo"
    /\ \E r \in {updateModelParams(mPar)} :
        /\ mPar' = r.mPar
        /\ result' = Some([step |-> "updateModelParams", exc |-> r.exc])
        /\ pc' = IF r.exc = "none" THEN "model" ELSE "failed"
    /\ UNCHANGED <<files, frameList, tagVars, dataVars, aPar, solverCalls, written, iter, im>>

\* the five print calls of FW, which read the attributes of dataParams
FWReport ==
    /\ pc = "model"
    /\ \E ok \in {{"B0", "N", "t1", "dt", "nx", "ny", "nz", "dx", "dy", "dz"}
                        \subseteq DOMAIN dPar} :
        /\ result' = Some([step |-> "print", exc |-> IF ok THEN "none" ELSE "AttributeError"])
        /\ pc' = IF ok THEN "process" ELSE "failed"
    /\ UNCHANGED <<files, frameList, tagVars, dataVars, fwVars>>

\* processDataset(dataParams,algoParams,modelParams) on the whole volume
FWProcessDataset ==
    /\ pc = "process"
    /\ aPar["use3D"] \/ Len(dPar["sliceList"]) = 1
    /\ \E r \in {processDataset(dPar, aPar, mPar)} :
        /\ mPar' = r.mPar
        /\ solverCalls' = solverCalls \o r.calls
        /\ written' = WriteAll(written, r.writes)
        /\ result' = Some([step |-> "processDataset", exc |-> r.exc])
        /\ pc' = IF r.exc = "none" THEN "done" ELSE "failed"
    /\ UNCHANGED <<files, frameList, tagVars, dataVars, aPar, iter, im>>

\* one round of the loop over dataParams.sliceList
FWProcessSlice ==
    /\ pc = "process"
    /\ ~(aPar["use3D"] \/ Len(dPar["sliceList"]) = 1)
    /\ iter < Len(dPar["sliceList"])
    /\ \E r \in {processDataset(getSliceDataParams(dPar, dPar["sliceList"][iter + 1], iter),
                                aPar, mPar)} :
        /\ mPar' = r.mPar
        /\ solverCalls' = solverCalls \o r.calls
        /\ written' = WriteAll(written, r.writes)
        /\ result' = Some([step |-> "processDataset", exc |-> r.exc])
        /\ pc' = IF r.exc # "none" THEN "failed"
                 ELSE IF iter + 1 = Len(dPar["sliceList"]) THEN "done"
                 ELSE "process"
    /\ iter' = iter + 1
    /\ UNCHANGED <<files, frameList, tagVars, dataVars, aPar, im>>

NextFW ==
    \/ FWUpdateDataParams
    \/ FWUpdateAlgoParams
    \/ FWUpdateModelParams
    \/ FWReport
    \/ FWProcessDataset
    \/ FWProcessSlice

SpecFW == InitFW /\ [][NextFW]_vars

(***************************************************************************)
(* Claims about the pipeline.                                              *)
(***************************************************************************)
\* C5: in every run of FW on a DICOM source, the solver is invoked and
\* output is written only if the frame set of the valid files passes the
\* checks of isValidDataset (supported type combination, at least three
\* echo times, uniform frequency, rows, columns, pixel spacing and slice
\* thickness); otherwise the job fails before any solver call or output.
C5_SolverOnlyAfterValidation ==
    (Len(solverCalls) > 0 \/ DOMAIN written # {}) =>
        With(getValidFiles(files),
             LAMBDA validFiles :
                Len(validFiles) > 0 =>
                    /\ isValidDataset(validFiles).exc = "none"
                    /\ isValidDataset(validFiles).value)

\* the ingestion updateDataParams ran for the job: "dicom", "matlab" or "none"
IngestionPath(d, fs) ==
    IF "files" \in DOMAIN d
    THEN IF Len(getValidFiles(fs)) = 0 /\ Len(fs) = 1 /\ fs[1].kind = "mat"
         THEN "matlab" ELSE "none"
    ELSE IF "dirs" \in DOMAIN d /\ Len(getValidFiles(fs)) > 0 THEN "dicom"
    ELSE "none"

\* the echo times (microseconds) of the echoes selected for the job
SelectedEchoTimes(d, fs) ==
    LET all == IF IngestionPath(d, fs) = "matlab" THEN fs[1].mat.TE
               ELSE With(ReadFrames(getValidFiles(fs)),
                         LAMBDA v : SortedSet({v[i].echo * 1000 : i \in 1..Len(v)}))
        echoes == IF "echoes" \in DOMAIN d THEN d["echoes"] ELSE Range(Len(all))
    IN  [k \in 1..Len(echoes) |-> all[echoes[k] + 1]]

\* C9: in both ingestion paths, when the largest or smallest spacing of the
\* selected echoes deviates from the mean spacing by more than 5%, the
\* ingestion does not abort for it: it prints the warning and completes,
\* having set t1, dt and img.
C9_JitterOnlyWarns ==
    (/\ result # None
     /\ result[1].step = "updateDataParams"
     /\ result[1].exc \in {"none", "echo-spacing"}
     /\ IngestionPath(dPar, files) # "none"
     /\ SpacingVaries(SelectedEchoTimes(dPar, files))) =>
        /\ result[1].exc = "none"
        /\ warned
        /\ {"t1", "dt", "img"} \subseteq DOMAIN dPar

\* C10: at every invocation of the solver, Xreal and Ximag hold nVxl*M
\* elements, M being the component count passed to that invocation, and
\* R2map and B0map hold nVxl = nx*ny*nz elements each, whatever nR2 is.
C10_BufferSizes ==
    \A i \in 1..Len(solverCalls) :
        LET c == solverCalls[i]
            nVxl == c.nx * c.ny * c.nz
        IN  /\ c.Xreal = nVxl * c.M
            /\ c.Ximag = nVxl * c.M
            /\ c.R2map = nVxl
            /\ c.B0map = nVxl

(***************************************************************************)
(* getSliceDataParams on its own: data parameters whose img holds one      *)
(* entry per pixel, numbered in the order (echo,slice,row,col) of the      *)
(* flattened array, for every size within the bounds and every list of     *)
(* increasing slice numbers.                                               *)
(***************************************************************************)
MaxViewEchoes == 2
MaxViewSlices == 2
MaxViewRows == 2
MaxViewCols == 2

\* the data parameters of a volume of N echoes, the slices sl, ny rows and
\* nx columns
VolumeParams(N, sl, ny, nx) ==
    [k \in {"N", "nz", "ny", "nx", "sliceList", "img", "totalN", "t1", "frameList"} |->
        CASE k = "N" -> N
          [] k = "nz" -> Len(sl)
          [] k = "ny" -> ny
          [] k = "nx" -> nx
          [] k = "sliceList" -> sl
          [] k = "img" -> [q \in 1..(N * Len(sl) * ny * nx) |-> q]
          [] k = "totalN" -> N
          [] k = "t1" -> 10000
          [] k = "frameList" -> <<>>]

InitView ==
    /\ dPar \in {VolumeParams(N, sl, ny, nx) :
                    N \in 1..MaxViewEchoes, sl \in Subsets(MaxViewSlices + 1),
                    ny \in 1..MaxViewRows, nx \in 1..MaxViewCols}
    /\ Len(dPar["sliceList"]) <= MaxViewSlices
    /\ warned = FALSE
    /\ pc = "start"
    /\ result = None
    /\ files = <<>> /\ frameList = <<>>
    /\ IdleTag
    /\ IdleFW

\* sliceDataParams = getSliceDataParams(dataParams,slice,z) for a position z
\* of sliceList: AttrDict(dPar) is a new dict and flatten() a new array, so
\* that the three assignments leave dataParams as it is
CallGetSliceDataParams ==
    /\ pc = "start"
    /\ \E z \in 0..(Len(dPar["sliceList"]) - 1) :
        result' = Some([slice |-> dPar["sliceList"][z + 1], z |-> z, before |-> dPar,
                        view |-> getSliceDataParams(dPar, dPar["sliceList"][z + 1], z)])
    /\ pc' = "viewed"
    /\ UNCHANGED <<files, frameList, tagVars, dataVars, fwVars>>

NextView == CallGetSliceDataParams

SpecView == InitView /\ [][NextView]_vars

\* C11: getSliceDataParams(dPar, slice, z) returns a view with nz=1 and
\* sliceList=[slice] whose img has N*ny*nx entries, the entry for echo e
\* and in-plane pixel v being the parent's entry at (e, z, v); every other
\* field of the view equals the parent's, and the parent is left unchanged.
C11_SliceView ==
    pc = "viewed" =>
        LET r == result[1]
            view == r.view
            N == dPar["N"]
            nVox == dPar["ny"] * dPar["nx"]
        IN  /\ view["nz"] = 1
            /\ view["sliceList"] = <<r.slice>>
            /\ Len(view["img"]) = N * nVox
            /\ \A e \in 0..(N - 1) : \A v \in 0..(nVox - 1) :
                    view["img"][e * nVox + v + 1]
                        = dPar["img"][(e * dPar["nz"] + r.z) * nVox + v + 1]
            /\ DOMAIN view = DOMAIN dPar
            /\ \A k \in DOMAIN dPar \ {"img", "nz", "sliceList"} : view[k] = dPar[k]
            /\ dPar = r.before

C11_Witness ==
    /\ pc = "viewed"
    /\ result[1].z = 1
    /\ dPar["N"] = 2 /\ dPar["nz"] = 2 /\ dPar["ny"] * dPar["nx"] = 2
    /\ result[1].view["img"] = <<3, 4, 7, 8>>

(***************************************************************************)
(* getValidFiles on its own: a single-frame file or a multi-frame file in  *)
(* which Slice Location and Echo Time are, at dataset level and in every   *)
(* frame, absent, 0 or 5; the other required attributes are at dataset     *)
(* level.  The file may come after a file pydicom cannot read.             *)
(***************************************************************************)
MaxValidFrames == 2

\* what a dataset or a frame holds of Slice Location and Echo Time
ProbedAttrs == AttrMaps({"Slice Location", "Echo Time"}, {0, 5})

\* the other required attributes, at dataset level
SharedAttrs ==
    [k \in {"Image Type", "Imaging Frequency", "Columns", "Rows", "Pixel Spacing",
            "Slice Thickness"} |->
        CASE k = "Image Type" -> {"ORIGINAL", "PRIMARY", "M"}
          [] k = "Imaging Frequency" -> 64
          [] k = "Columns" -> 2
          [] k = "Rows" -> 1
          [] k = "Pixel Spacing" -> <<1, 1>>
          [] k = "Slice Thickness" -> 5]

ProbedFiles ==
    {[name |-> 1, kind |-> "dicom",
      ds |-> [attrs |-> a @@ SharedAttrs, hasSeq |-> FALSE, frames |-> <<>>]] :
        a \in ProbedAttrs}
    \cup UNION {{[name |-> 1, kind |-> "dicom",
                  ds |-> [attrs |-> a @@ ("Number of frames" :> n) @@ SharedAttrs,
                          hasSeq |-> TRUE,
                          frames |-> [j \in 1..n |-> [priv |-> TRUE, attrs |-> fr[j]]]]] :
                    a \in ProbedAttrs, fr \in [1..n -> ProbedAttrs]} :
                n \in 2..MaxValidFrames}

InitValid ==
    /\ files \in {<<f>> : f \in ProbedFiles} \cup {<<OtherFile(0), f>> : f \in ProbedFiles}
    /\ frameList = <<>>
    /\ pc = "start"
    /\ result = None
    /\ IdleTag
    /\ IdleData
    /\ IdleFW

\* validFiles = getValidFiles(files)
CallGetValidFiles ==
    /\ pc = "start"
    /\ result' = Some(getValidFiles(files))
    /\ pc' = "filtered"
    /\ UNCHANGED <<files, frameList, tagVars, dataVars, fwVars>>

NextValid == CallGetValidFiles

SpecValid == InitValid /\ [][NextValid]_vars

\* the attribute exists at dataset level or, in a multi-frame file, in
\* every frame
AttrPresent(d, attr) ==
    \/ getAttribute(d, attr, None) # None
    \/ /\ isMultiFrame(d)
       /\ \A i \in 1..Len(d.frames) : getAttribute(d, attr, Some(i - 1)) # None

\* C12: getValidFiles keeps a DICOM file if and only if every required
\* attribute exists at dataset level or, for a multi-frame file, in every
\* frame; an attribute whose value is zero (slice location 0) exists.
C12_PresenceNotValue ==
    pc = "filtered" =>
        \A i \in 1..Len(files) :
            files[i].kind = "dicom" =>
                ((\E j \in 1..Len(result[1]) : result[1][j] = files[i])
                    <=> \A a \in 1..Len(reqAttributes) :
                            AttrPresent(files[i].ds, reqAttributes[a]))

(***************************************************************************)
(* The window save stores for one slice: any pixel array within the        *)
(* bounds, written into a dataset made from scratch.  The percentiles are  *)
(* computed exactly, without the rounding of floating point.               *)
(***************************************************************************)
MaxPixels == 3
MaxPixelVal == 4

\* the k-th smallest (k from 1) of the pixels a
KthSmallest(a, k) ==
    CHOOSE v \in {a[i] : i \in 1..Len(a)} :
        /\ Cardinality({i \in 1..Len(a) : a[i] <= v}) >= k
        /\ Cardinality({i \in 1..Len(a) : a[i] < v}) < k

\* a thousand times np.percentile(a, p/10): the value at the fractional
\* index (len(a)-1)*p/1000 of the sorted pixels, interpolated linearly
Percentile(a, p) ==
    LET h == (Len(a) - 1) * p
        lo == h \div 1000
        fraction == h % 1000
    IN  KthSmallest(a, lo + 1) * 1000
            + (IF fraction = 0 THEN 0
               ELSE fraction * (KthSmallest(a, lo + 2) - KthSmallest(a, lo + 1)))

\* get95percentileWindow: center and width, as fractions
get95percentileWindow(a) ==
    LET lims == <<Percentile(a, 25), Percentile(a, 975)>>
        width == lims[2] - lims[1]
    IN  [center |-> Rat(width + 2 * lims[1], 2000), width |-> Rat(width, 1000)]

\* int(x) for a fraction x that is not negative
Truncate(x) == x.num \div x.den

InitWindow ==
    /\ im \in UNION {[1..n -> 0..MaxPixelVal] : n \in 1..MaxPixels}
    /\ ds = [attrs |-> EmptyAttrs, hasSeq |-> FALSE, frames |-> <<>>]
    /\ tagCall = NoCall
    /\ tagRet = None
    /\ files = <<>> /\ frameList = <<>>
    /\ pc = "start"
    /\ result = None
    /\ IdleData
    /\ aPar = None /\ mPar = None /\ solverCalls = <<>> /\ written = None /\ iter = 0

\* lines 106, 145 and 146 of save, iFrame being None
SaveWindow ==
    /\ pc = "start"
    /\ \E w \in {get95percentileWindow(im)} :
        ds' = setTagValue(setTagValue(ds, "Window Center", Truncate(w.center), None,
                                      Some("DS")).ds,
                          "Window Width", Truncate(w.width), None, Some("DS")).ds
    /\ pc' = "saved"
    /\ UNCHANGED <<tagCall, tagRet, files, frameList, result, dataVars, fwVars>>

NextWindow == SaveWindow

SpecWindow == InitWindow /\ [][NextWindow]_vars

\* C13: the window center and width save stores for a slice (after int())
\* hold at least 95% of the slice's pixel values within
\* [center - width/2, center + width/2].
C13_WindowHolds95 ==
    pc = "saved" =>
        LET center == ds.attrs["Window Center"]
            width == ds.attrs["Window Width"]
            inside == {i \in 1..Len(im) :
                        /\ 2 * center - width <= 2 * im[i]
                        /\ 2 * im[i] <= 2 * center + width}
        IN  Cardinality(inside) * 100 >= 95 * Len(im)

(***************************************************************************)
(* updateAlgoParams on its own: any number of R2* steps, any R2max and one *)
(* or two candidates within the bounds.                                    *)
(***************************************************************************)
MaxNR2 == 3
MaxR2 == 4

AlgoConfigsR2 ==
    {n @@ x @@ c :
        n \in {EmptyAttrs} \cup {"nr2" :> k : k \in 0..MaxNR2},
        x \in {EmptyAttrs} \cup {"r2max" :> k : k \in (-1)..MaxR2},
        c \in {EmptyAttrs}
             \cup {"r2cand" :> l : l \in UNION {[1..k -> (-1)..MaxR2] : k \in 1..2}}}

InitAlgo ==
    /\ aPar \in AlgoConfigsR2
    /\ mPar = None /\ solverCalls = <<>> /\ written = None /\ iter = 0 /\ im = <<>>
    /\ pc = "start"
    /\ result = None
    /\ files = <<>> /\ frameList = <<>>
    /\ IdleTag
    /\ IdleData

CallUpdateAlgoParams ==
    /\ pc = "start"
    /\ \E r \in {updateAlgoParams(aPar)} :
        /\ aPar' = r.aPar
        /\ result' = Some([exc |-> r.exc, value |-> r.exc = "none"])
    /\ pc' = "updated"
    /\ UNCHANGED <<files, frameList, mPar, solverCalls, written, iter, im>>
    /\ UNCHANGED <<tagVars, dataVars>>

NextAlgo == CallUpdateAlgoParams

SpecAlgo == InitAlgo /\ [][NextAlgo]_vars

\* k is floor(R2/R2step): k <= R2/R2step < k+1, the step not being 0
IsFloor(k, R2, R2step) ==
    IF R2step.num > 0
    THEN k * R2step.num <= R2 * R2step.den /\ R2 * R2step.den < (k + 1) * R2step.num
    ELSE /\ R2step.num < 0
         /\ k * R2step.num >= R2 * R2step.den
         /\ R2 * R2step.den > (k + 1) * R2step.num

\* the quotients R2/R2step lie within these
Quotients == (-(MaxR2 * MaxNR2))..(MaxR2 * MaxNR2)

\* what the claim says of the parameters a after updateAlgoParams
AlgoIndicesRight(a) ==
    LET nR2 == a["nR2"]
        R2cand == a["R2cand"]
    IN  /\ {"R2step", "iR2cand", "nR2cand"} \subseteq DOMAIN a
        /\ IF nR2 > 1 THEN RatEq(a["R2step"], Rat(a["R2max"], nR2 - 1))
           ELSE RatEq(a["R2step"], One)
        /\ \A c \in 1..Len(R2cand) : \E i \in a["iR2cand"], k \in Quotients :
                IsFloor(k, R2cand[c], a["R2step"]) /\ i = Min(nR2 - 1, k)
        /\ \A i \in a["iR2cand"] : \E c \in 1..Len(R2cand), k \in Quotients :
                IsFloor(k, R2cand[c], a["R2step"]) /\ i = Min(nR2 - 1, k)
        /\ a["iR2cand"] \subseteq 0..(nR2 - 1)
        /\ a["nR2cand"] = Cardinality(a["iR2cand"])
        /\ a["nR2cand"] >= 1

\* the case of the claim: nR2>=1 and candidates that are not negative
AlgoCase(a) ==
    /\ pc = "updated"
    /\ a["nR2"] >= 1
    /\ \A c \in 1..Len(a["R2cand"]) : a["R2cand"][c] >= 0

\* C14 as stated: after updateAlgoParams with nR2>=1 and non-negative
\* candidates, R2step is R2max/(nR2-1) for nR2>1 and 1 otherwise, iR2cand
\* is the set of min(nR2-1, floor(R2/R2step)) over the candidates, within
\* 0..nR2-1, and nR2cand is its size, at least 1.
C14_IndicesAnyR2max ==
    (AlgoCase(aPar) /\ result[1].exc = "none") => AlgoIndicesRight(aPar)

\* C14, amended: for nR2>=1, non-negative candidates and, when nR2>1, an
\* R2max that is positive, updateAlgoParams completes and leaves R2step,
\* iR2cand and nR2cand as stated.
C14_Indices ==
    (AlgoCase(aPar) /\ (aPar["nR2"] > 1 => aPar["R2max"] > 0)) =>
        (result[1].exc = "none" /\ AlgoIndicesRight(aPar))

C14_Witness ==
    /\ AlgoCase(aPar)
    /\ aPar["nR2"] = 3 /\ aPar["R2max"] = 3
    /\ aPar["R2cand"] = <<4, 3>>
    /\ aPar["iR2cand"] = {2}
    /\ aPar["nR2cand"] = 1

(***************************************************************************)
(* Further claims about the pipeline.                                      *)
(***************************************************************************)
\* the data parameters d are what updateDataParamsDICOM makes of them and
\* of the valid files among fs (it changes nothing when applied again)
PopulatedFrom(d, exc, fs) ==
    \E r \in {updateDataParamsDICOM(d, getValidFiles(fs))} :
        /\ exc = r.exc
        /\ r.exc = "none" => d = r.dPar

\* C15: when the source is named through 'files' and at least one of the
\* files is a valid DICOM file, updateDataParams leaves the data parameters
\* (geometry, B0, echoes, frame list, image) that updateDataParamsDICOM
\* makes of the valid files, as it does for 'dirs', and fails when it fails.
C15_FilesPopulated ==
    (/\ result # None
     /\ result[1].step = "updateDataParams"
     /\ "files" \in DOMAIN dPar
     /\ Len(getValidFiles(files)) > 0) =>
        PopulatedFrom(dPar, result[1].exc, files)

\* the source of the job is one multi-frame file, as save decides it
MultiFrameSource(dP) ==
    /\ Len(dP["frameList"]) > 0
    /\ Cardinality({dP["frameList"][i].file : i \in 1..Len(dP["frameList"])}) = 1

\* the directory dir holds the data of all the slices of sl: one object
\* with the slices as its frames, or one object per slice
HoldsAllSlices(w, dir, sl, multi) ==
    IF multi
    THEN /\ <<dir, 0>> \in DOMAIN w
         /\ w[<<dir, 0>>].slices = sl
         /\ Len(w[<<dir, 0>>].frames) = Len(sl)
    ELSE \A z \in 1..Len(sl) :
            /\ <<dir, sl[z]>> \in DOMAIN w
            /\ w[<<dir, sl[z]>>].slices = <<sl[z]>>

FACJob(mP) ==
    /\ "nfac" \in DOMAIN mP /\ mP["nfac"] \in 1..3
    /\ "fatcs" \in DOMAIN mP /\ Len(mP["fatcs"]) = 10

\* the entries of the model configuration file among the model parameters
ModelConfigOf(mP) ==
    [k \in DOMAIN mP \cap {"watcs", "fatcs", "nfac", "cl", "p2u", "relamps"} |-> mP[k]]

\* the calls of processDataset made so far
Rounds == IF aPar["use3D"] \/ Len(dPar["sliceList"]) = 1 THEN 1 ELSE iter

\* C17: in a job with nFAC in 1..3, one water and ten fat resonances, CL and
\* P2U configured or left to their defaults (17.4 and 0.2), updateModelParams
\* raises nothing and every processDataset makes exactly two solver calls
\* without a missing-attribute error: the first with the two-component alpha
\* of CL, P2U and UD = 2.6, the second with the (2+nFAC)-component alpha
\* updateModelParams derived, which with M is what the model parameters hold
\* again when processDataset returns.
C17_FACTwoPasses ==
    (result # None /\ FACJob(mPar)) =>
        /\ result[1].step = "updateModelParams" => result[1].exc = "none"
        /\ result[1].step = "processDataset" =>
            /\ result[1].exc # "AttributeError"
            /\ Len(solverCalls) = 2 * Rounds
            /\ LET derived == updateModelParams(ModelConfigOf(mPar)).mPar
                   CL == IF "cl" \in DOMAIN mPar THEN mPar["cl"] ELSE 174
                   P2U == IF "p2u" \in DOMAIN mPar THEN mPar["p2u"] ELSE 2
                   first == solverCalls[Len(solverCalls) - 1]
                   second == solverCalls[Len(solverCalls)]
               IN  /\ first.M = 2
                   /\ first.alpha = getFACalphas(Some(CL), Some(P2U), Some(26))
                   /\ second.M = 2 + mPar["nfac"]
                   /\ second.alpha = derived["alpha"]
                   /\ mPar["alpha"] = derived["alpha"]
                   /\ mPar["M"] = derived["M"]

====
